---- MODULE Spec2Model ----
(***************************************************************************)
(* Model of libs/cli/deepagents_cli/providers/bedrock.py: the environment  *)
(* reader (_read_env and its _parse_*_env helpers) and the client builder  *)
(* (create_bedrock_model, _normalize_model_id).                            *)
(*                                                                         *)
(* Strings.  The value of an environment variable is a finite sequence of  *)
(* lexemes.  A lexeme is one character (" ", "-", "7", "[", ...) or one    *)
(* word the code compares against as a whole ("true", "adaptive", "nan").  *)
(* The string a sequence stands for is the concatenation of its lexemes.   *)
(* Two lexemes stand for long runs: ManyDigits is a run of more than 4300  *)
(* decimal digits '9' (over CPython's int/str conversion limit), DeepOpen  *)
(* is a run of '[' deeper than the interpreter's recursion limit.          *)
(* A model name is a sequence of single characters.                        *)
(*                                                                         *)
(* Python values.  None is the record None; a float is a record            *)
(* [t |-> "float", ...] holding the exact decimal the literal denotes; an  *)
(* optional int is PyInt(n) or None; a list of strings is PyList(items).   *)
(***************************************************************************)
EXTENDS Integers, Sequences, FiniteSets, TLC

VARIABLES
    environ,    \* os.environ: variable name -> value, Unset when not defined
    rec,        \* BedrockEnv returned by the last _read_env, NoRec before
    raised,     \* exception that escaped the last call, "none" if it returned
    arg,        \* model_name argument of the last create_bedrock_model call
    client,     \* keyword arguments the last call handed to ChatBedrock
    calls,      \* the calls made so far: environment, argument, outcome
    nchanges    \* number of environment changes made so far

vars == <<environ, rec, raised, arg, client, calls, nchanges>>

-----------------------------------------------------------------------------
(* Bounds of the model.                                                    *)

\* Longest value, in lexemes, of a scalar variable in the reader's inputs.
MaxLen == 3
\* Longest value, in lexemes, of BEDROCK_STOP in the reader's inputs.
MaxStopLen == 4
\* Longest value, in lexemes, of a variable in the builder's inputs.
MaxSampleLen == 2
\* Longest remainder, in characters, that follows a model name's head.
MaxRest == 3
\* Most create_bedrock_model calls recorded in one behaviour.
MaxCalls == 2
\* Most environment changes (setenv / unsetenv) in one behaviour.
MaxEnvChanges == 2

-----------------------------------------------------------------------------
(* Python values.                                                          *)

None == [t |-> "None"]
PyInt(n) == [t |-> "int", v |-> n]
PyList(items) == [t |-> "list", items |-> items]
\* A finite float: (-1)^neg * mant * 10^(-exp), mant not a multiple of 10
\* unless exp = 0.  -0.0 is neg = TRUE, mant = 0.
Fin(neg, mant, exp) == [t |-> "float", kind |-> "fin", neg |-> neg, mant |-> mant, exp |-> exp]
Inf(neg) == [t |-> "float", kind |-> "inf", neg |-> neg, mant |-> 0, exp |-> 0]
NaN == [t |-> "float", kind |-> "nan", neg |-> FALSE, mant |-> 0, exp |-> 0]

\* Python truthiness of an optional float: None and +-0.0 are falsy, every
\* other float (nan and the infinities included) is truthy.
Truthy(x) == x # None /\ ~(x.kind = "fin" /\ x.mant = 0)

\* What os.environ.get(v) finds for a variable that is not defined (None):
\* a marker no value is equal to.
Unset == <<"(unset)">>
NoRec == [t |-> "norec"]
NoClient == [t |-> "noclient"]

-----------------------------------------------------------------------------
(* Lexemes and the string methods the code uses.                           *)

ManyDigits == "9{4301}"
DeepOpen == "[{100000}"
Digits == {"0", "1", "2", "3", "4", "5", "6", "7", "8", "9"}
DigitVal == [d \in Digits |->
    CASE d = "0" -> 0 [] d = "1" -> 1 [] d = "2" -> 2 [] d = "3" -> 3 [] d = "4" -> 4
      [] d = "5" -> 5 [] d = "6" -> 6 [] d = "7" -> 7 [] d = "8" -> 8 [] d = "9" -> 9]

RECURSIVE SeqsUpTo(_, _)
\* All sequences over alphabet A of length at most n.
SeqsUpTo(A, n) ==
    IF n = 0 THEN {<<>>}
    ELSE LET S == SeqsUpTo(A, n - 1) IN S \cup {Append(s, a) : s \in S, a \in A}

RECURSIVE LStrip(_)
LStrip(s) == IF s # <<>> /\ Head(s) = " " THEN LStrip(Tail(s)) ELSE s

RECURSIVE RStrip(_)
RStrip(s) == IF s # <<>> /\ s[Len(s)] = " " THEN RStrip(SubSeq(s, 1, Len(s) - 1)) ELSE s

\* str.strip()
Strip(s) == RStrip(LStrip(s))

\* value is None or value.strip() == ""
IsBlank(value) == value = Unset \/ Strip(value) = <<>>

\* str.lower() of one lexeme
LowerLex(x) ==
    CASE x = "TRUE" -> "true" [] x = "True" -> "true" [] x = "YES" -> "yes"
      [] x = "On" -> "on" [] x = "OFF" -> "off" [] x = "No" -> "no"
      [] x = "X" -> "x" [] OTHER -> x

Lower(s) == [i \in 1..Len(s) |-> LowerLex(s[i])]

-----------------------------------------------------------------------------
(* int(str) and float(str).  A conversion yields [ok |-> TRUE, v |-> the   *)
(* value], or [ok |-> FALSE, ...] where the code gets ValueError.          *)

\* A digit group: digits, single underscores allowed between two digits.
IsDigitGroup(s) ==
    /\ s # <<>>
    /\ \A i \in 1..Len(s) : s[i] \in Digits \cup {"_", ManyDigits}
    /\ s[1] # "_" /\ s[Len(s)] # "_"
    /\ \A i \in 1..(Len(s) - 1) : ~(s[i] = "_" /\ s[i + 1] = "_")

HasManyDigits(s) == \E i \in 1..Len(s) : s[i] = ManyDigits

RECURSIVE GroupValue(_, _)
\* The number a digit group without ManyDigits denotes, acc the digits so far.
GroupValue(s, acc) ==
    IF s = <<>> THEN acc
    ELSE IF Head(s) = "_" THEN GroupValue(Tail(s), acc)
    ELSE GroupValue(Tail(s), 10 * acc + DigitVal[Head(s)])

HasSign(s) == s # <<>> /\ Head(s) \in {"+", "-"}
Unsigned(s) == IF HasSign(s) THEN Tail(s) ELSE s
IsNeg(s) == s # <<>> /\ Head(s) = "-"

\* The digits after the sign.  A literal of more than 4300 digits raises
\* ValueError as a malformed one does.
IntBody(neg, body) ==
    IF IsDigitGroup(body) /\ ~HasManyDigits(body)
    THEN [ok |-> TRUE, v |-> (IF neg THEN -1 ELSE 1) * GroupValue(body, 0)]
    ELSE [ok |-> FALSE, v |-> 0]

SignedInt(s) == IntBody(IsNeg(s), Unsigned(s))

\* int(value)
IntOf(value) == SignedInt(Strip(value))

RECURSIVE Normalize(_, _, _)
\* The float mant * 10^(-exp), trailing zeros of the fraction removed.
Normalize(neg, mant, exp) ==
    IF exp > 0 /\ mant % 10 = 0 THEN Normalize(neg, mant \div 10, exp - 1)
    ELSE Fin(neg, mant, exp)

RECURSIVE FirstIndex(_, _, _)
\* Least i >= from with s[i] = x, Len(s) + 1 when there is none.
FirstIndex(s, x, from) ==
    IF from > Len(s) THEN Len(s) + 1
    ELSE IF s[from] = x THEN from
    ELSE FirstIndex(s, x, from + 1)

RECURSIVE Pow10(_)
Pow10(n) == IF n = 0 THEN 1 ELSE 10 * Pow10(n - 1)

\* The integer part (a number) and the fraction digits d, of which those
\* before position k count: a run of nines at k rounds them up by one unit
\* in their last place.
Rounded(neg, whole, d, k) ==
    Normalize(neg,
              whole * Pow10(k - 1) + GroupValue(SubSeq(d, 1, k - 1), 0)
                  + (IF k <= Len(d) THEN 1 ELSE 0),
              k - 1)

\* The digits of a group, underscores dropped.
GroupDigits(s) == SelectSeq(s, LAMBDA x : x # "_")

FinOf(neg, whole, d) == Rounded(neg, whole, d, FirstIndex(d, ManyDigits, 1))

\* ip "." fr, or ip alone when there is no dot
DecimalParts(neg, ip, fr, hasDot) ==
    IF ~(/\ ip # <<>> \/ (hasDot /\ fr # <<>>)
         /\ ip = <<>> \/ IsDigitGroup(ip)
         /\ fr = <<>> \/ IsDigitGroup(fr))
    THEN [ok |-> FALSE, v |-> None]
    ELSE IF HasManyDigits(ip) THEN [ok |-> TRUE, v |-> Inf(neg)]
    ELSE [ok |-> TRUE, v |-> FinOf(neg, GroupValue(ip, 0), GroupDigits(fr))]

Decimal(neg, body, dot) ==
    DecimalParts(neg, SubSeq(body, 1, dot - 1), SubSeq(body, dot + 1, Len(body)), dot <= Len(body))

FloatBody(neg, body) ==
    IF body = <<"inf">> THEN [ok |-> TRUE, v |-> Inf(neg)]
    ELSE IF body = <<"nan">> THEN [ok |-> TRUE, v |-> NaN]
    ELSE Decimal(neg, body, FirstIndex(body, ".", 1))

SignedFloat(s) == FloatBody(IsNeg(s), Unsigned(s))

\* float(value)
FloatOf(value) == SignedFloat(Strip(value))

-----------------------------------------------------------------------------
(* json.loads, as far as _parse_list_env depends on it.  A scan yields     *)
(* [st |-> "ok", nxt |-> the position after the value, val |-> the value], *)
(* or [st |-> the exception raised].  A value is a string JStr(s), a list  *)
(* PyList(items) or something else, JOther.                                *)

Quote == "\""
JOther == [t |-> "other"]
JStr(s) == [t |-> "str", s |-> s]
JFail(exc) == [st |-> exc, nxt |-> 0, val |-> JOther]
JOk(nxt, val) == [st |-> "ok", nxt |-> nxt, val |-> val]

RECURSIVE SkipWs(_, _)
\* Least j >= i that is past the end of s or not at whitespace.
SkipWs(s, i) == IF i <= Len(s) /\ s[i] = " " THEN SkipWs(s, i + 1) ELSE i

RECURSIVE DigitRunEnd(_, _)
\* Least j >= i that is past the end of s or not at a digit.
DigitRunEnd(s, i) ==
    IF i <= Len(s) /\ s[i] \in Digits \cup {ManyDigits} THEN DigitRunEnd(s, i + 1) ELSE i

\* A string from the quote at i to the next quote at j.
StringTo(s, i, j) ==
    IF j > Len(s) THEN JFail("JSONDecodeError")
    ELSE JOk(j + 1, JStr(SubSeq(s, i + 1, j - 1)))

ScanString(s, i) == StringTo(s, i, FirstIndex(s, Quote, i + 1))

\* The number whose digits start at d, its integer part ending before
\* intEnd and its fraction before fracEnd.  An integer is converted with
\* int(), which raises ValueError (not JSONDecodeError) past 4300 digits.
NumberTo(s, d, intEnd, fracEnd) ==
    IF intEnd = d THEN JFail("JSONDecodeError")
    ELSE IF fracEnd > intEnd + 1 THEN JOk(fracEnd, JOther)
    ELSE IF HasManyDigits(SubSeq(s, d, intEnd - 1)) THEN JFail("ValueError")
    ELSE JOk(intEnd, JOther)

NumberFrac(s, d, intEnd) ==
    NumberTo(s, d, intEnd,
             IF intEnd <= Len(s) /\ s[intEnd] = "." THEN DigitRunEnd(s, intEnd + 1) ELSE intEnd)

NumberInt(s, d) ==
    NumberFrac(s, d, IF d <= Len(s) /\ s[d] = "0" THEN d + 1 ELSE DigitRunEnd(s, d))

\* A number: -?(0|[1-9][0-9]*)(\.[0-9]+)?
ScanNumber(s, i) == NumberInt(s, IF s[i] = "-" THEN i + 1 ELSE i)

RECURSIVE ScanValue(_, _)
RECURSIVE ScanElems(_, _, _)
RECURSIVE AfterValue(_, _, _, _)

\* What follows the element v of an array: "]" or ",", at position k.
AfterValue(s, v, k, acc) ==
    IF v.st # "ok" THEN v
    ELSE IF k > Len(s) THEN JFail("JSONDecodeError")
    ELSE IF s[k] = "]" THEN JOk(k + 1, PyList(Append(acc, v.val)))
    ELSE IF s[k] = "," THEN ScanElems(s, SkipWs(s, k + 1), Append(acc, v.val))
    ELSE JFail("JSONDecodeError")

ElemAt(s, v, acc) == AfterValue(s, v, SkipWs(s, v.nxt), acc)

\* The elements of an array from position i on, acc the elements so far.
ScanElems(s, i, acc) == ElemAt(s, ScanValue(s, i), acc)

\* An array whose first element, or "]", is at position j.
ArrayAt(s, j) ==
    IF j <= Len(s) /\ s[j] = "]" THEN JOk(j + 1, PyList(<<>>))
    ELSE ScanElems(s, j, <<>>)

\* One JSON value at position i.  An array nested deeper than the recursion
\* limit raises RecursionError as soon as the scanner descends into it.
ScanValue(s, i) ==
    IF i > Len(s) THEN JFail("JSONDecodeError")
    ELSE IF s[i] = Quote THEN ScanString(s, i)
    ELSE IF s[i] = DeepOpen THEN JFail("RecursionError")
    ELSE IF s[i] = "[" THEN ArrayAt(s, SkipWs(s, i + 1))
    ELSE IF s[i] \in {"true", "false"} THEN JOk(i + 1, JOther)
    ELSE IF s[i] \in Digits \cup {"-", ManyDigits} THEN ScanNumber(s, i)
    ELSE JFail("JSONDecodeError")

\* The value r was scanned: only whitespace may follow it.
WholeDocument(s, r) ==
    IF r.st # "ok" THEN [exc |-> r.st, data |-> JOther]
    ELSE IF SkipWs(s, r.nxt) # Len(s) + 1 THEN [exc |-> "JSONDecodeError", data |-> JOther]
    ELSE [exc |-> "none", data |-> r.val]

\* json.loads(s): [exc |-> "none", data |-> value] or the exception raised.
JsonLoads(s) == WholeDocument(s, ScanValue(s, SkipWs(s, 1)))

-----------------------------------------------------------------------------
(* The _parse_*_env helpers.  e is os.environ at the time of the call.     *)

Vars == {"BEDROCK_RETRY_MODE", "AWS_RETRY_MODE", "BEDROCK_MAX_ATTEMPTS", "AWS_MAX_ATTEMPTS",
         "BEDROCK_MAX_POOL_CONNECTIONS", "DEEPAGENTS_BEDROCK_RPS", "DEEPAGENTS_BEDROCK_BURST",
         "BEDROCK_TEMPERATURE", "BEDROCK_MAX_TOKENS", "BEDROCK_TOP_P", "BEDROCK_TOP_K",
         "BEDROCK_STOP", "BEDROCK_THINKING", "BEDROCK_THINKING_BUDGET"}

DefaultMaxAttempts == 3
DefaultMaxPoolConnections == 10
DefaultMaxTokens == 1024
DefaultThinkingBudget == 4096
DefaultRetryMode == <<"adaptive">>

\* try: return <conversion>  except ValueError: return default
OrDefault(r, default) == IF r.ok THEN r.v ELSE default

\* try: return int(value)  except ValueError: return None
IntOrNone(r) == IF r.ok THEN PyInt(r.v) ELSE None

\* As _parse_int_env, but a value int() rejects is taken for 0 instead of
\* the default.
ParseIntNoDefault(e, var_name, default) ==
    IF IsBlank(e[var_name]) THEN default ELSE OrDefault(IntOf(e[var_name]), 0)

_parse_int_env(e, var_name, default) ==
    IF IsBlank(e[var_name]) THEN default ELSE OrDefault(IntOf(e[var_name]), default)

_parse_optional_int_env(e, var_name) ==
    IF IsBlank(e[var_name]) THEN None ELSE IntOrNone(IntOf(e[var_name]))

_parse_float_env(e, var_name) ==
    IF IsBlank(e[var_name]) THEN None ELSE OrDefault(FloatOf(e[var_name]), None)

RECURSIVE Split(_, _)
RECURSIVE SplitAt(_, _, _)
\* The piece before the separator at k, then the pieces after it.
SplitAt(s, sep, k) ==
    IF k > Len(s) THEN <<s>>
    ELSE <<SubSeq(s, 1, k - 1)>> \o Split(SubSeq(s, k + 1, Len(s)), sep)

\* str.split(sep): the pieces of s between the occurrences of sep.
Split(s, sep) == SplitAt(s, sep, FirstIndex(s, sep, 1))

StripAll(pieces) == [i \in 1..Len(pieces) |-> Strip(pieces[i])]

\* [p.strip() for p in value.split(sep) if p.strip()]
StrippedParts(value, sep) ==
    StripAll(SelectSeq(Split(value, sep), LAMBDA p : Strip(p) # <<>>))

\* "|" if "|" in value, else ","
Separator(value) == IF \E i \in 1..Len(value) : value[i] = "|" THEN "|" ELSE ","

\* value.startswith("[")
StartsWithBracket(value) == value # <<>> /\ Head(value) \in {"[", DeepOpen}

\* isinstance(data, list) and all(isinstance(x, str) for x in data)
IsListOfStr(data) ==
    /\ data.t = "list"
    /\ \A i \in 1..Len(data.items) : data.items[i].t = "str"

\* A function's outcome: the value returned or the exception that escapes.
Returned(v) == [exc |-> "none", v |-> v]
Escaped(exc) == [exc |-> exc, v |-> None]

\* What json.loads gave: only json.JSONDecodeError is caught.
FromJson(loaded) ==
    IF loaded.exc = "JSONDecodeError" THEN Returned(None)
    ELSE IF loaded.exc # "none" THEN Escaped(loaded.exc)
    ELSE IF IsListOfStr(loaded.data)
        THEN Returned(PyList([i \in 1..Len(loaded.data.items) |-> loaded.data.items[i].s]))
    ELSE Returned(None)

\* return parts or None
FromParts(parts) == Returned(IF parts = <<>> THEN None ELSE PyList(parts))

\* The stripped, non-blank value.
ListOf(value) ==
    IF StartsWithBracket(value) THEN FromJson(JsonLoads(value))
    ELSE FromParts(StrippedParts(value, Separator(value)))

_parse_list_env(e, var_name) ==
    IF IsBlank(e[var_name]) THEN Returned(None) ELSE ListOf(Strip(e[var_name]))

Truthies == {"1", "true", "yes", "on", "enabled"}
Falsies == {"0", "false", "no", "off", "disabled"}

\* The stripped, lowered, non-blank value: TRUE, FALSE or None.
BoolOf(lowered) ==
    IF Len(lowered) = 1 /\ lowered[1] \in Truthies THEN [t |-> "bool", v |-> TRUE]
    ELSE IF Len(lowered) = 1 /\ lowered[1] \in Falsies THEN [t |-> "bool", v |-> FALSE]
    ELSE None

_parse_bool_env(e, var_name) ==
    IF IsBlank(e[var_name]) THEN None ELSE BoolOf(Lower(Strip(e[var_name])))

\* bool(x) of an optional bool
PyBool(x) == x # None /\ x.v

-----------------------------------------------------------------------------
(* _normalize_model_id.  A model name is a sequence of characters;         *)
(* KelvinSign is U+212A, an upper-case letter whose lower case is "k".     *)

KelvinSign == "U+212A"
Prefix == <<"b", "e", "d", "r", "o", "c", "k", ":">>

\* str.lower() of one character
LowerChar(c) ==
    CASE c = "B" -> "b" [] c = "E" -> "e" [] c = "D" -> "d" [] c = "R" -> "r"
      [] c = "O" -> "o" [] c = "C" -> "c" [] c = "K" -> "k" [] c = KelvinSign -> "k"
      [] c = "X" -> "x" [] OTHER -> c

LowerName(s) == [i \in 1..Len(s) |-> LowerChar(s[i])]

\* s.startswith(p)
StartsWith(s, p) == Len(s) >= Len(p) /\ SubSeq(s, 1, Len(p)) = p

\* s.split(":")[1]: what lies between the first colon and the second
BetweenColons(s) ==
    SubSeq(s, FirstIndex(s, ":", 1) + 1, FirstIndex(s, ":", FirstIndex(s, ":", 1) + 1) - 1)

\* s.split(":", 1)[1]: what follows the first colon
AfterFirstColon(s) == SubSeq(s, FirstIndex(s, ":", 1) + 1, Len(s))

_normalize_model_id(model_name) ==
    IF StartsWith(LowerName(model_name), Prefix)
    THEN AfterFirstColon(model_name)
    ELSE model_name

-----------------------------------------------------------------------------
(* _read_env.                                                              *)

\* os.environ.get(a) or os.environ.get(b, "adaptive")
RetryMode(e) ==
    IF e["BEDROCK_RETRY_MODE"] # Unset /\ e["BEDROCK_RETRY_MODE"] # <<>>
    THEN e["BEDROCK_RETRY_MODE"]
    ELSE IF e["AWS_RETRY_MODE"] = Unset THEN DefaultRetryMode
    ELSE e["AWS_RETRY_MODE"]

BedrockEnv(e, stop) ==
    [retry_mode |-> RetryMode(e),
     max_attempts |-> _parse_int_env(e, "BEDROCK_MAX_ATTEMPTS",
                          _parse_int_env(e, "AWS_MAX_ATTEMPTS", DefaultMaxAttempts)),
     max_pool_connections |-> _parse_int_env(e, "BEDROCK_MAX_POOL_CONNECTIONS", DefaultMaxPoolConnections),
     requests_per_second |-> _parse_float_env(e, "DEEPAGENTS_BEDROCK_RPS"),
     max_bucket_size |-> _parse_float_env(e, "DEEPAGENTS_BEDROCK_BURST"),
     temperature |-> _parse_float_env(e, "BEDROCK_TEMPERATURE"),
     max_tokens |-> _parse_int_env(e, "BEDROCK_MAX_TOKENS", DefaultMaxTokens),
     top_p |-> _parse_float_env(e, "BEDROCK_TOP_P"),
     top_k |-> _parse_optional_int_env(e, "BEDROCK_TOP_K"),
     stop_sequences |-> stop,
     thinking_enabled |-> PyBool(_parse_bool_env(e, "BEDROCK_THINKING")),
     thinking_budget |-> _parse_int_env(e, "BEDROCK_THINKING_BUDGET", DefaultThinkingBudget)]

\* The record, once BEDROCK_STOP was parsed (the others cannot raise).
WithStop(e, stop) ==
    IF stop.exc # "none" THEN [exc |-> stop.exc, rec |-> NoRec]
    ELSE [exc |-> "none", rec |-> BedrockEnv(e, stop.v)]

\* [exc |-> "none", rec |-> the record], or the exception that escapes.
_read_env(e) == WithStop(e, _parse_list_env(e, "BEDROCK_STOP"))

-----------------------------------------------------------------------------
(* create_bedrock_model.                                                   *)

\* 0.3 and 1.0
DefaultTemperature == Fin(FALSE, 3, 1)
ThinkingTemperature == Fin(FALSE, 1, 0)

\* As Sampling, but thinking mode leaves top_k as configured.
SamplingKeepsTopK(env) ==
    LET t1 == IF env.temperature = None /\ env.top_p = None
              THEN DefaultTemperature ELSE env.temperature
        p1 == IF t1 # None /\ env.top_p # None THEN None ELSE env.top_p
    IN  IF env.thinking_enabled
        THEN [temperature |-> ThinkingTemperature, top_p |-> None, top_k |-> env.top_k]
        ELSE [temperature |-> t1, top_p |-> p1, top_k |-> env.top_k]

\* As Sampling, but top_p is kept when a temperature is configured too.
SamplingKeepsTopP(env) ==
    LET t1 == IF env.temperature = None /\ env.top_p = None
              THEN DefaultTemperature ELSE env.temperature
    IN  IF env.thinking_enabled
        THEN [temperature |-> ThinkingTemperature, top_p |-> None, top_k |-> None]
        ELSE [temperature |-> t1, top_p |-> env.top_p, top_k |-> env.top_k]

\* temperature, top_p and top_k after the conflict resolution
Sampling(env) ==
    LET t1 == IF env.temperature = None /\ env.top_p = None
              THEN DefaultTemperature ELSE env.temperature
        p1 == IF t1 # None /\ env.top_p # None THEN None ELSE env.top_p
    IN  IF env.thinking_enabled
        THEN [temperature |-> ThinkingTemperature, top_p |-> None, top_k |-> None]
        ELSE [temperature |-> t1, top_p |-> p1, top_k |-> env.top_k]

\* env.max_bucket_size or env.requests_per_second
BucketSize(env) ==
    IF Truthy(env.max_bucket_size) THEN env.max_bucket_size ELSE env.requests_per_second

RateLimiter(env) ==
    IF env.requests_per_second # None
    THEN [t |-> "InMemoryRateLimiter",
          requests_per_second |-> env.requests_per_second,
          max_bucket_size |-> BucketSize(env)]
    ELSE None

\* the dict model_kwargs; "model_kwargs or None" hands None for an empty one
ModelKwargs(env, s) ==
    LET keys == {k \in {"top_p", "top_k", "thinking"} :
                    \/ k = "top_p" /\ s.top_p # None
                    \/ k = "top_k" /\ s.top_k # None
                    \/ k = "thinking" /\ env.thinking_enabled}
        d == [k \in keys |->
                 CASE k = "top_p" -> s.top_p
                   [] k = "top_k" -> s.top_k
                   [] k = "thinking" -> [type |-> "enabled", budget_tokens |-> PyInt(env.thinking_budget)]]
    IN  IF keys = {} THEN None ELSE [t |-> "dict", d |-> d]

\* the keyword arguments of ChatBedrock(...), s the resolved sampling
Kwargs(env, model_id, s) ==
    [model_id |-> model_id,
     config |-> [retries |-> [mode |-> env.retry_mode, max_attempts |-> env.max_attempts],
                 max_pool_connections |-> env.max_pool_connections],
     rate_limiter |-> RateLimiter(env),
     temperature |-> s.temperature,
     max_tokens |-> env.max_tokens,
     stop |-> env.stop_sequences,
     model_kwargs |-> ModelKwargs(env, s)]

ChatBedrock(env, model_id) == Kwargs(env, model_id, Sampling(env))

\* What a call made under environment e with argument model_name does:
\* the record it read, the exception that escapes, what the client is given.
Built(r, model_name) ==
    IF r.exc # "none" THEN [rec |-> NoRec, raised |-> r.exc, client |-> NoClient]
    ELSE [rec |-> r.rec, raised |-> "none",
          client |-> ChatBedrock(r.rec, _normalize_model_id(model_name))]

Outcome(e, model_name) == Built(_read_env(e), model_name)

\* The environment as it was at the first call, kept for the later ones.
EnvironAtFirstCall == IF calls # <<>> THEN calls[1].environ ELSE environ

\* The environment a call reads: os.environ, at the time of the call.
os_environ == environ

NoArg == <<"-">>

\* _read_env() returns r.rec or raises r.exc
ReadReturns(r) ==
    /\ rec' = r.rec
    /\ raised' = r.exc
    /\ UNCHANGED <<environ, arg, client, calls, nchanges>>

ReadEnv == ReadReturns(_read_env(os_environ))

\* create_bedrock_model(model_name) ends with outcome out
CreateReturns(model_name, out) ==
    /\ arg' = model_name
    /\ rec' = out.rec
    /\ raised' = out.raised
    /\ client' = out.client
    /\ UNCHANGED <<environ, nchanges>>

create_bedrock_model(model_name) == CreateReturns(model_name, Outcome(os_environ, model_name))

-----------------------------------------------------------------------------
(* The inputs: environments and model names.                               *)

AllUnset == [v \in Vars |-> Unset]

\* An environment with every variable set to a well-formed value.
Typical ==
    [v \in Vars |->
        CASE v = "BEDROCK_RETRY_MODE" -> <<"standard">>
          [] v = "AWS_RETRY_MODE" -> <<"legacy">>
          [] v = "BEDROCK_MAX_ATTEMPTS" -> <<"5">>
          [] v = "AWS_MAX_ATTEMPTS" -> <<"7">>
          [] v = "BEDROCK_MAX_POOL_CONNECTIONS" -> <<"2", "0">>
          [] v = "DEEPAGENTS_BEDROCK_RPS" -> <<"5">>
          [] v = "DEEPAGENTS_BEDROCK_BURST" -> <<"2", "0">>
          [] v = "BEDROCK_TEMPERATURE" -> <<"0", ".", "2">>
          [] v = "BEDROCK_MAX_TOKENS" -> <<"5", "1", "2">>
          [] v = "BEDROCK_TOP_P" -> <<"0", ".", "5">>
          [] v = "BEDROCK_TOP_K" -> <<"4", "0">>
          [] v = "BEDROCK_STOP" -> <<"a", ",", "b">>
          [] v = "BEDROCK_THINKING" -> <<"1">>
          [] v = "BEDROCK_THINKING_BUDGET" -> <<"2", "0", "4", "8">>]

Backgrounds == {AllUnset, Typical}

IntVars == {"BEDROCK_MAX_POOL_CONNECTIONS", "BEDROCK_MAX_TOKENS", "BEDROCK_THINKING_BUDGET",
            "BEDROCK_TOP_K"}
FloatVars == {"DEEPAGENTS_BEDROCK_RPS", "DEEPAGENTS_BEDROCK_BURST", "BEDROCK_TEMPERATURE",
              "BEDROCK_TOP_P"}

IntAlphabet == {" ", "-", "+", "0", "7", "x", "_", ManyDigits}
FloatAlphabet == {" ", "-", "0", "5", ".", "x", "nan", "inf"}
BoolAlphabet == {" ", "1", "0", "true", "YES", "On", "off", "No", "x", "enabled", "disabled"}
JsonAlphabet == {"[", "]", Quote, ",", " ", "a", "1", ManyDigits, DeepOpen}
SplitAlphabet == {"a", ",", "|", " ", "["}
RetryAlphabet == {" ", "adaptive", "standard", "x"}
AttemptsAlphabet == {" ", "-", "0", "7", "x"}

\* Unset, or any string over alphabet A of at most n lexemes.
Values(A, n) == {Unset} \cup SeqsUpTo(A, n)

\* The values of BEDROCK_STOP: the strings json.loads is given (they start
\* with "[", perhaps after whitespace) and the strings that are split.
StopValues ==
    {<<h>> \o s : h \in {"[", DeepOpen, " "}, s \in SeqsUpTo(JsonAlphabet, MaxStopLen - 1)}
    \cup Values(SplitAlphabet, MaxStopLen)

\* The values one variable takes while the others keep their background.
ScalarValues(v) ==
    IF v \in IntVars THEN Values(IntAlphabet, MaxLen)
    ELSE IF v \in FloatVars THEN Values(FloatAlphabet, MaxLen)
    ELSE IF v = "BEDROCK_THINKING" THEN Values(BoolAlphabet, MaxLen)
    ELSE StopValues

\* One value at most, or at most one lexeme.
FewValues(A) == Values(A, 1)

SampleFloats == Values({"0", ".", "7"}, MaxSampleLen)
RateFloats == Values({"0", ".", "5", "-", "x"}, MaxSampleLen)

\* bedrock:x:0 and x
SomeModels == {Prefix \o <<"x", ":", "0">>, <<"x">>}

\* Model names: a head that is, or nearly is, the provider prefix in some
\* letter case, followed by any short remainder.
Heads ==
    {<<>>, Prefix,
     <<"B", "E", "D", "R", "O", "C", "K", ":">>,
     <<"B", "e", "d", "R", "o", "c", "k", ":">>,
     <<"b", "e", "d", "r", "o", "c", KelvinSign, ":">>,
     <<"b", "e", "d", "r", "o", "c", "k">>,
     <<"b", "e", "d", "r", "o", "c", ":">>,
     <<"x", "b", "e", "d", "r", "o", "c", "k", ":">>}

ModelNames == {h \o r : h \in Heads, r \in SeqsUpTo({":", "x", "B"}, MaxRest)}

\* The value a caller sets a variable to between calls.
Sample(v) ==
    CASE v \in {"BEDROCK_RETRY_MODE", "AWS_RETRY_MODE"} -> <<"standard">>
      [] v \in {"BEDROCK_MAX_ATTEMPTS", "AWS_MAX_ATTEMPTS"} \cup IntVars -> <<"7">>
      [] v \in FloatVars -> <<"0", ".", "5">>
      [] v = "BEDROCK_THINKING" -> <<"1">>
      [] v = "BEDROCK_STOP" -> <<"a", "|", "b">>

-----------------------------------------------------------------------------
(* The specifications.                                                     *)

Fresh ==
    /\ rec = NoRec
    /\ raised = "none"
    /\ arg = NoArg
    /\ client = NoClient
    /\ calls = <<>>
    /\ nchanges = 0

\* os.environ[v] = x, done by the caller between calls.
Setenv(v, x) ==
    /\ nchanges < MaxEnvChanges
    /\ environ[v] # x
    /\ environ' = [environ EXCEPT ![v] = x]
    /\ nchanges' = nchanges + 1
    /\ UNCHANGED <<rec, raised, arg, client, calls>>

\* del os.environ[v], done by the caller between calls.
Unsetenv(v) ==
    /\ nchanges < MaxEnvChanges
    /\ environ[v] # Unset
    /\ environ' = [environ EXCEPT ![v] = Unset]
    /\ nchanges' = nchanges + 1
    /\ UNCHANGED <<rec, raised, arg, client, calls>>

\* create_bedrock_model(model_name), the call noted in calls.
Call(model_name) ==
    /\ Len(calls) < MaxCalls
    /\ create_bedrock_model(model_name)
    /\ calls' = Append(calls, [environ |-> environ, arg |-> model_name,
                               raised |-> raised', client |-> client'])

\* The first create_bedrock_model call of a process, under the combinations
\* of the builder's variables.
\* The environments: every combination of the sampling variables, or every
\* combination of the rate variables, the others all unset or all well-formed.
Init ==
    /\ \E bg \in Backgrounds :
        \/ \E t \in SampleFloats, p \in SampleFloats,
              k \in {Unset, <<"x">>, <<"4", "0">>},
              th \in {Unset, <<"x">>, <<"0">>, <<"On">>},
              b \in {Unset, <<"x">>, <<"7">>} :
                environ = [bg EXCEPT !["BEDROCK_TEMPERATURE"] = t, !["BEDROCK_TOP_P"] = p,
                                     !["BEDROCK_TOP_K"] = k, !["BEDROCK_THINKING"] = th,
                                     !["BEDROCK_THINKING_BUDGET"] = b]
        \/ \E r \in RateFloats, b \in RateFloats :
                environ = [bg EXCEPT !["DEEPAGENTS_BEDROCK_RPS"] = r,
                                     !["DEEPAGENTS_BEDROCK_BURST"] = b]
    /\ Fresh
Next == Fresh /\ \E m \in SomeModels : create_bedrock_model(m) /\ UNCHANGED calls
Spec == Init /\ [][Next]_vars

\* The first _read_env of a process, on every short value of every variable.
\* The environments: one field's variables take every value, the other
\* variables are all unset or all well-formed.
InitRead ==
    /\ \E bg \in Backgrounds :
        \/ \E v \in IntVars \cup FloatVars \cup {"BEDROCK_THINKING", "BEDROCK_STOP"} :
              \E x \in ScalarValues(v) : environ = [bg EXCEPT ![v] = x]
        \/ \E x \in Values(AttemptsAlphabet, MaxLen), y \in FewValues(AttemptsAlphabet) :
                \/ environ = [bg EXCEPT !["BEDROCK_MAX_ATTEMPTS"] = x, !["AWS_MAX_ATTEMPTS"] = y]
                \/ environ = [bg EXCEPT !["BEDROCK_MAX_ATTEMPTS"] = y, !["AWS_MAX_ATTEMPTS"] = x]
        \/ \E x \in Values(RetryAlphabet, MaxLen - 1), y \in Values(RetryAlphabet, MaxLen - 1) :
                environ = [bg EXCEPT !["BEDROCK_RETRY_MODE"] = x, !["AWS_RETRY_MODE"] = y]
    /\ Fresh
NextRead == Fresh /\ ReadEnv
SpecRead == InitRead /\ [][NextRead]_vars

\* The first create_bedrock_model call of a process, on every model name.
InitModelId == environ \in Backgrounds /\ Fresh
NextModelId == Fresh /\ \E m \in ModelNames : create_bedrock_model(m) /\ UNCHANGED calls
SpecModelId == InitModelId /\ [][NextModelId]_vars

\* Calls interleaved with changes of the environment.
InitCalls == environ = AllUnset /\ Fresh
NextCalls ==
    \/ \E v \in Vars : Setenv(v, Sample(v))
    \/ \E v \in Vars : Unsetenv(v)
    \/ \E m \in SomeModels : Call(m)
SpecCalls == InitCalls /\ [][NextCalls]_vars

-----------------------------------------------------------------------------
(* The claims.                                                             *)

\* _read_env has run and returned a record.
HasRead == rec # NoRec
\* create_bedrock_model has run and built the client's arguments.
HasBuilt == client # NoClient
\* The variable is unset or holds only whitespace.
BlankOrUnset(v) == IsBlank(environ[v])
\* The variable holds a non-blank value that int() rejects.
NotIntLiteral(v) == ~BlankOrUnset(v) /\ ~IntOf(environ[v]).ok
\* The extra-parameters map holds key k.
HasKey(mk, k) == mk # None /\ k \in DOMAIN mk.d

\* C1: _read_env never fails: whatever the variables hold, no exception
\* escapes it.
C1_ReadEnvNeverFails == raised = "none"

\* C2: an integer field whose primary variable holds no valid integer
\* literal equals the field's default: 3, 10, 1024, 4096.
C2_MalformedIntGivesDefault ==
    HasRead =>
        /\ NotIntLiteral("BEDROCK_MAX_ATTEMPTS") => rec.max_attempts = DefaultMaxAttempts
        /\ NotIntLiteral("BEDROCK_MAX_POOL_CONNECTIONS")
               => rec.max_pool_connections = DefaultMaxPoolConnections
        /\ NotIntLiteral("BEDROCK_MAX_TOKENS") => rec.max_tokens = DefaultMaxTokens
        /\ NotIntLiteral("BEDROCK_THINKING_BUDGET") => rec.thinking_budget = DefaultThinkingBudget

\* What AWS_MAX_ATTEMPTS resolves to: its integer, or 3 when it is unset,
\* blank or rejected by int().
AwsMaxAttempts ==
    IF environ["AWS_MAX_ATTEMPTS"] # Unset /\ IntOf(environ["AWS_MAX_ATTEMPTS"]).ok
    THEN IntOf(environ["AWS_MAX_ATTEMPTS"]).v
    ELSE DefaultMaxAttempts

\* C2, amended: with a primary variable that holds a non-blank value that
\* is no valid integer literal, max_pool_connections, max_tokens and thinking_budget equal their
\* defaults 10, 1024 and 4096, and max_attempts equals what AWS_MAX_ATTEMPTS
\* resolves to: its integer, or 3 when it is unset, blank or no valid literal.
C2_MalformedIntFallsBack ==
    HasRead =>
        /\ NotIntLiteral("BEDROCK_MAX_ATTEMPTS") => rec.max_attempts = AwsMaxAttempts
        /\ NotIntLiteral("BEDROCK_MAX_POOL_CONNECTIONS")
               => rec.max_pool_connections = DefaultMaxPoolConnections
        /\ NotIntLiteral("BEDROCK_MAX_TOKENS") => rec.max_tokens = DefaultMaxTokens
        /\ NotIntLiteral("BEDROCK_THINKING_BUDGET") => rec.thinking_budget = DefaultThinkingBudget

\* C2 witness: BEDROCK_MAX_ATTEMPTS holds a malformed value while
\* AWS_MAX_ATTEMPTS holds the literal 7, and the record was read.
C2_Witness ==
    /\ HasRead
    /\ NotIntLiteral("BEDROCK_MAX_ATTEMPTS")
    /\ environ["AWS_MAX_ATTEMPTS"] = <<"7">>
    /\ rec.max_attempts = 7

\* C3: when every variable feeding a field is blank or unset, an optional
\* field is absent and a required field has its default.
C3_BlankOrUnsetGivesDefaults ==
    HasRead =>
        /\ BlankOrUnset("BEDROCK_RETRY_MODE") /\ BlankOrUnset("AWS_RETRY_MODE")
               => rec.retry_mode = DefaultRetryMode
        /\ BlankOrUnset("BEDROCK_MAX_ATTEMPTS") /\ BlankOrUnset("AWS_MAX_ATTEMPTS")
               => rec.max_attempts = DefaultMaxAttempts
        /\ BlankOrUnset("BEDROCK_MAX_POOL_CONNECTIONS")
               => rec.max_pool_connections = DefaultMaxPoolConnections
        /\ BlankOrUnset("BEDROCK_MAX_TOKENS") => rec.max_tokens = DefaultMaxTokens
        /\ BlankOrUnset("BEDROCK_THINKING") => rec.thinking_enabled = FALSE
        /\ BlankOrUnset("BEDROCK_THINKING_BUDGET") => rec.thinking_budget = DefaultThinkingBudget
        /\ BlankOrUnset("DEEPAGENTS_BEDROCK_RPS") => rec.requests_per_second = None
        /\ BlankOrUnset("DEEPAGENTS_BEDROCK_BURST") => rec.max_bucket_size = None
        /\ BlankOrUnset("BEDROCK_TEMPERATURE") => rec.temperature = None
        /\ BlankOrUnset("BEDROCK_TOP_P") => rec.top_p = None
        /\ BlankOrUnset("BEDROCK_TOP_K") => rec.top_k = None
        /\ BlankOrUnset("BEDROCK_STOP") => rec.stop_sequences = None

\* C4: with thinking mode enabled the client gets temperature 1.0, no top_p,
\* no top_k and a thinking descriptor with the configured budget; without
\* it, no thinking descriptor.
C4_ThinkingOverrides ==
    HasBuilt =>
        IF rec.thinking_enabled
        THEN /\ client.temperature = Fin(FALSE, 1, 0)
             /\ ~HasKey(client.model_kwargs, "top_p")
             /\ ~HasKey(client.model_kwargs, "top_k")
             /\ HasKey(client.model_kwargs, "thinking")
             /\ client.model_kwargs.d["thinking"].budget_tokens = PyInt(rec.thinking_budget)
        ELSE ~HasKey(client.model_kwargs, "thinking")

\* C4 witness: a call with thinking mode enabled and temperature, top_p and
\* top_k all configured.
C4_Witness ==
    /\ HasBuilt
    /\ rec.thinking_enabled
    /\ rec.temperature # None /\ rec.top_p # None /\ rec.top_k # None
    /\ rec.thinking_budget = 7

\* C5: with thinking mode disabled: neither configured, temperature is 0.3
\* and top_p absent; both configured, the temperature is passed unchanged
\* and top_p dropped; one configured, it is passed unchanged and the other
\* is absent; never both a temperature and a top_p.
C5_TemperatureOrTopP ==
    (HasBuilt /\ ~rec.thinking_enabled) =>
        /\ (rec.temperature = None /\ rec.top_p = None)
               => (client.temperature = Fin(FALSE, 3, 1) /\ ~HasKey(client.model_kwargs, "top_p"))
        /\ rec.temperature # None
               => (client.temperature = rec.temperature /\ ~HasKey(client.model_kwargs, "top_p"))
        /\ (rec.temperature = None /\ rec.top_p # None)
               => /\ client.temperature = None
                  /\ HasKey(client.model_kwargs, "top_p")
                  /\ client.model_kwargs.d["top_p"] = rec.top_p
        /\ ~(client.temperature # None /\ HasKey(client.model_kwargs, "top_p"))

\* C5 witness: a call with thinking mode disabled and both a temperature
\* and a top_p configured.
C5_Witness ==
    /\ HasBuilt
    /\ ~rec.thinking_enabled
    /\ rec.temperature # None /\ rec.top_p # None

\* C6: a rate limiter is built exactly when requests_per_second is
\* configured; its rate is requests_per_second and its burst capacity is
\* the configured burst whenever one is set, the rate only when none is.
C6_BurstIsConfiguredBurst ==
    HasBuilt =>
        /\ client.rate_limiter # None <=> rec.requests_per_second # None
        /\ client.rate_limiter # None =>
            /\ client.rate_limiter.requests_per_second = rec.requests_per_second
            /\ client.rate_limiter.max_bucket_size =
                   IF rec.max_bucket_size # None THEN rec.max_bucket_size
                   ELSE rec.requests_per_second

\* The letter cases of a character of the provider prefix.
CaseVariants(c) ==
    CASE c = "b" -> {"b", "B"} [] c = "e" -> {"e", "E"} [] c = "d" -> {"d", "D"}
      [] c = "r" -> {"r", "R"} [] c = "o" -> {"o", "O"} [] c = "c" -> {"c", "C"}
      [] c = "k" -> {"k", "K", KelvinSign} [] OTHER -> {c}

\* The name starts with "bedrock:" in some letter case.
HasProviderPrefix(name) ==
    /\ Len(name) >= Len(Prefix)
    /\ \A i \in 1..Len(Prefix) : name[i] \in CaseVariants(Prefix[i])

\* C7: the backend identifier is the model name without its leading
\* "bedrock:" (any letter case), later colons kept; a name without that
\* prefix is unchanged.
C7_ModelIdNormalized ==
    HasBuilt =>
        client.model_id = IF HasProviderPrefix(arg)
                          THEN SubSeq(arg, Len(Prefix) + 1, Len(arg))
                          ELSE arg

\* C7 witness: a call whose name has the prefix in mixed case and a
\* remainder that holds a colon.
C7_Witness ==
    /\ HasBuilt
    /\ HasProviderPrefix(arg) /\ arg[1] = "B"
    /\ \E i \in 1..Len(client.model_id) : client.model_id[i] = ":"

\* C8: max_attempts and max_pool_connections are at least 1 in every record.
C8_PositiveCounts ==
    HasRead => (rec.max_attempts >= 1 /\ rec.max_pool_connections >= 1)

\* C9: stop_sequences is absent or a non-empty list of non-empty strings.
C9_StopSequencesNonEmpty ==
    HasRead =>
        \/ rec.stop_sequences = None
        \/ /\ rec.stop_sequences.items # <<>>
           /\ \A i \in 1..Len(rec.stop_sequences.items) : rec.stop_sequences.items[i] # <<>>

\* C10: what a call hands to the client depends only on the environment at
\* the moment of the call and on its argument: every call made so far gave
\* what a first call under that environment gives, and two calls under equal
\* environments with equal arguments gave the same.
C10_NoCaching ==
    /\ \A i \in 1..Len(calls) :
          /\ calls[i].client = Outcome(calls[i].environ, calls[i].arg).client
          /\ calls[i].raised = Outcome(calls[i].environ, calls[i].arg).raised
    /\ \A i, j \in 1..Len(calls) :
          (calls[i].environ = calls[j].environ /\ calls[i].arg = calls[j].arg)
              => (calls[i].client = calls[j].client /\ calls[i].raised = calls[j].raised)

\* C10 witness: two calls with the same argument, the environment changed
\* in between, and the second call's parameters differ from the first's.
C10_Witness ==
    /\ Len(calls) = 2
    /\ calls[1].arg = calls[2].arg
    /\ calls[1].environ # calls[2].environ
    /\ calls[1].client # calls[2].client
    /\ calls[2].client.max_tokens = 7

====
